---- MODULE Spec2Model ----
(***************************************************************************)
(* Model of the two frontmatter maintenance scripts                        *)
(*   scripts/add-archive-yaml.py   (add_archive_field, main)               *)
(*   scripts/add-like-yaml.py      (add_like_field, main)                  *)
(* Text is a sequence of one-character strings, so that the string         *)
(* operations of the scripts (startswith, split, re.search, re.sub,        *)
(* rstrip, lower) are computed character by character.                     *)
(***************************************************************************)
EXTENDS Integers, Sequences, FiniteSets, TLC

VARIABLES fs, env, last, prev, calls, script, pc, idx, out, runs

vars == <<fs, env, last, prev, calls, script, pc, idx, out, runs>>

(***************************************************************************)
(* Bounds of the model.                                                    *)
(***************************************************************************)
\* header lines of a generated document
MaxLines == 2
\* direct calls of the inserter in the function-level specification
MaxCalls == 2
\* script executions in the driver specification
MaxRuns == 2
\* characters a failing overwrite may still get onto the disk
MaxPartial == 1

(***************************************************************************)
(* Characters and literals of the scripts.                                 *)
(***************************************************************************)
NL == "\n"
CR == "\r"
SP == " "
TAB == "\t"

\* '---'
Sentinel == <<"-", "-", "-">>
\* 'archive:' and 'like:', the keys with their colon as the scripts write them
ArchiveKey == <<"a", "r", "c", "h", "i", "v", "e", ":">>
LikeKey == <<"l", "i", "k", "e", ":">>

(***************************************************************************)
(* Generic sequence helpers.                                               *)
(***************************************************************************)
\* F applied to the value of x, with x evaluated once
Bind(x, F(_)) == CHOOSE r \in {F(c) : c \in {x}} : TRUE

Min(a, b) == IF a < b THEN a ELSE b

\* s[from..] as a sequence (empty when from > Len(s))
Drop(s, n) == SubSeq(s, n + 1, Len(s))
Take(s, n) == SubSeq(s, 1, Min(n, Len(s)))

\* does p occur in s at position i (1-based)
MatchAt(s, p, i) ==
    /\ i >= 1
    /\ i + Len(p) - 1 <= Len(s)
    /\ \A k \in 1..Len(p) : s[i + k - 1] = p[k]

\* lowest position >= from at which p occurs in s, 0 when there is none
Find(s, p, from) ==
    LET hits == {i \in from..(Len(s) - Len(p) + 1) : MatchAt(s, p, i)}
    IN  IF hits = {} THEN 0 ELSE CHOOSE i \in hits : \A j \in hits : i <= j

\* str.startswith
StartsWith(s, p) == MatchAt(s, p, 1)

\* the 'in' operator on strings
Contains(s, p) == Find(s, p, 1) # 0

(***************************************************************************)
(* The Python string operations the scripts use.                           *)
(***************************************************************************)
\* white space as str.rstrip() sees it, within the model's characters
IsSpace(c) == c \in {SP, NL, CR, TAB}

\* str.rstrip(): drop the trailing white space
RStrip(s) ==
    LET keep == {i \in 1..Len(s) : ~IsSpace(s[i])}
    IN  IF keep = {} THEN <<>>
        ELSE SubSeq(s, 1, CHOOSE i \in keep : \A j \in keep : j <= i)

\* str(bool): 'True' / 'False'
PyStr(v) == IF v THEN <<"T", "r", "u", "e">> ELSE <<"F", "a", "l", "s", "e">>

\* str.lower(), on the characters that occur in the model
LowerChar(c) == IF c = "T" THEN "t" ELSE IF c = "F" THEN "f" ELSE c
Lower(s) == [i \in 1..Len(s) |-> LowerChar(s[i])]

\* content.split('---', 2): at most two cuts, leftmost occurrences first
Split(s) ==
    LET p1 == Find(s, Sentinel, 1)
        p2 == Find(s, Sentinel, p1 + Len(Sentinel))
    IN  IF p1 = 0 THEN <<s>>
        ELSE IF p2 = 0
             THEN <<SubSeq(s, 1, p1 - 1), Drop(s, p1 + Len(Sentinel) - 1)>>
             ELSE <<SubSeq(s, 1, p1 - 1),
                    SubSeq(s, p1 + Len(Sentinel), p2 - 1),
                    Drop(s, p2 + Len(Sentinel) - 1)>>

\* the search without re.MULTILINE: '^' is the start of the text only
SearchStartOnly(s, key) == MatchAt(s, key, 1)

\* re.search(r'^key', s, re.MULTILINE): key at the start of s or right after '\n'
SearchLineStart(s, key) ==
    \E i \in 1..Len(s) : (i = 1 \/ s[i - 1] = NL) /\ MatchAt(s, key, i)

\* re.sub(r'(key.*\n)', '\\1' + ins, s) applied to s[from..]: every
\* non-overlapping match, left to right; '.' does not match '\n', so a
\* match runs from the key to the first '\n' after it
RECURSIVE ReSubFrom(_, _, _, _)
ReSubFrom(s, key, ins, from) ==
    LET i == Find(s, key, from)
        j == IF i = 0 THEN 0 ELSE Find(s, <<NL>>, i + Len(key))
    IN  IF i = 0 \/ j = 0 THEN Drop(s, from - 1)
        ELSE SubSeq(s, from, j) \o ins \o ReSubFrom(s, key, ins, j + 1)

ReSub(s, key, ins) == ReSubFrom(s, key, ins, 1)

\* read_text() opens with universal newlines: '\r\n' and '\r' are read as '\n'
RECURSIVE Decode(_)
Decode(b) ==
    IF b = <<>> THEN <<>>
    ELSE IF b[1] = CR
         THEN IF Len(b) >= 2 /\ b[2] = NL
              THEN <<NL>> \o Decode(Drop(b, 2))
              ELSE <<NL>> \o Decode(Tail(b))
         ELSE <<b[1]>> \o Decode(Tail(b))

\* write_text() on the scripts' platform (a macOS path): '\n' is written as is
Encode(t) == t

\* f'key {str(value).lower()}\n'
FieldLine(key, v) == key \o <<SP>> \o Lower(PyStr(v)) \o <<NL>>

(***************************************************************************)
(* The filesystem and its failures.                                        *)
(* A file is [exists, data]; env is the condition of the disk:             *)
(*   ok    every operation works                                           *)
(*   read  read_text raises                                                *)
(*   open  write_text raises before the file is truncated                  *)
(*   full  write_text truncates the file, gets env.room characters onto    *)
(*         the disk and raises when the text is longer than that           *)
(***************************************************************************)
NoFile == [exists |-> FALSE, data |-> <<>>]
File(d) == [exists |-> TRUE, data |-> d]

EnvOk == [kind |-> "ok", room |-> 0]
Envs ==
    {EnvOk, [kind |-> "read", room |-> 0], [kind |-> "open", room |-> 0]}
    \cup {[kind |-> "full", room |-> k] : k \in 0..MaxPartial}

(***************************************************************************)
(* add_archive_field / add_like_field: the two functions are the same      *)
(* text with the key and the anchor exchanged.  The result is the report   *)
(* printed, the file afterwards, the text handed to write_text, and the    *)
(* number of read_text and write_text calls made.                          *)
(***************************************************************************)
Result(outcome, file, text, reads, writes) ==
    [outcome |-> outcome, file |-> file, text |-> text,
     reads |-> reads, writes |-> writes]

\* the frontmatter with the new field, lines 43-51 / 54-62
NewFrontmatter(frontmatter, key, anchor, v) ==
    IF Contains(frontmatter, anchor)
    THEN ReSub(frontmatter, anchor, FieldLine(key, v))
    ELSE RStrip(frontmatter) \o <<NL>> \o FieldLine(key, v)

\* new_content = '---' + frontmatter + rest, for a text that splits in three
NewContent(content, key, anchor, v) ==
    Bind(Split(content), LAMBDA parts :
        Bind(parts[2], LAMBDA frontmatter :
            Sentinel \o NewFrontmatter(frontmatter, key, anchor, v)
                     \o Sentinel \o parts[3]))

\* write_text with the file emptied before the failing open is noticed
WriteTextTruncating(file, text, e) ==
    IF e.kind = "open" THEN Result("Error", File(<<>>), text, 1, 1)
    ELSE IF e.kind = "full" /\ e.room < Len(Encode(text))
         THEN Result("Error", File(Take(Encode(text), e.room)), text, 1, 1)
         ELSE Result("Success", File(Encode(text)), text, 1, 1)

\* file_path.write_text(text) under the disk condition e
WriteText(file, text, e) ==
    IF e.kind = "open" THEN Result("Error", file, text, 1, 1)
    ELSE IF e.kind = "full" /\ e.room < Len(Encode(text))
         THEN Result("Error", File(Take(Encode(text), e.room)), text, 1, 1)
         ELSE Result("Success", File(Encode(text)), text, 1, 1)

InsertField(file, e, key, anchor, v) ==
    IF ~file.exists \/ e.kind = "read"
    THEN Result("Error", file, <<>>, 1, 0)
    ELSE Bind(Decode(file.data), LAMBDA content :
             IF ~StartsWith(content, Sentinel)
             THEN Result("NoFrontmatter", file, <<>>, 1, 0)
             ELSE IF SearchLineStart(content, key)
             THEN Result("AlreadyPresent", file, <<>>, 1, 0)
             ELSE IF Len(Split(content)) < 3
             THEN Result("InvalidFrontmatter", file, <<>>, 1, 0)
             ELSE Bind(NewContent(content, key, anchor, v), LAMBDA new_content :
                      WriteText(file, new_content, e)))

add_archive_field(file, e, archive_value) ==
    InsertField(file, e, ArchiveKey, LikeKey, archive_value)

add_like_field(file, e, like_value) ==
    InsertField(file, e, LikeKey, ArchiveKey, like_value)

(***************************************************************************)
(* The target lists of the two scripts (paths shortened to their folder    *)
(* and author; the two archive targets are also like_false targets).       *)
(***************************************************************************)
like_true_files ==
    <<"Youtube/ThePark", "Instagram/columbia_kr", "Instagram/1818jh",
      "X/SoominPark", "Linkedin/SeongJunLee">>

like_false_files ==
    <<"Threads/slamslam__", "Threads/choi.openai", "Tiktok/YAJACAMP",
      "X/mugigyeon">>

archive_true_files == <<"Threads/slamslam__", "X/mugigyeon">>

Range(q) == {q[i] : i \in 1..Len(q)}

Paths == Range(like_true_files) \cup Range(like_false_files)
            \cup Range(archive_true_files)

(***************************************************************************)
(* Documents the model starts from: an opening line, up to n header lines  *)
(* drawn from HeaderLines, a closing line or none, and a body.             *)
(***************************************************************************)
HeaderLines ==
    { \* 'like: true'
      <<"l", "i", "k", "e", ":", SP, "t", "r", "u", "e", NL>>,
      \* 'archive: false'
      <<"a", "r", "c", "h", "i", "v", "e", ":", SP, "f", "a", "l", "s", "e", NL>>,
      \* 'x like:archive: ': both keys inside a line, white space at its end
      <<"x", SP, "l", "i", "k", "e", ":", "a", "r", "c", "h", "i", "v", "e", ":", SP, NL>>,
      \* an empty line
      <<NL>>,
      \* 'like: a---b': the sentinel inside the value of a like line
      <<"l", "i", "k", "e", ":", SP, "a", "-", "-", "-", "b", NL>>,
      \* 'a---b': the sentinel inside another line
      <<"a", "-", "-", "-", "b", NL>> }

\* '---' as the first line, or a text that is no frontmatter
Openings == { <<"-", "-", "-", NL>>, <<"x", NL>> }
\* '---' as the closing line, or no closing line
Closings == { <<"-", "-", "-", NL>>, <<>> }
\* 'b', or a like line in the body, ended '\r\n'
Bodies == { <<"b", NL>>, <<"l", "i", "k", "e", ":", SP, "b", CR, NL>> }

RECURSIVE Concat(_)
Concat(ls) == IF ls = <<>> THEN <<>> ELSE Head(ls) \o Concat(Tail(ls))

Docs(n) ==
    { o \o Concat(ls) \o c \o b :
        o \in Openings,
        ls \in UNION {[1..k -> HeaderLines] : k \in 0..n},
        c \in Closings,
        b \in Bodies }

(***************************************************************************)
(* State.                                                                  *)
(*   fs      path -> file                                                  *)
(*   env     condition of the disk                                         *)
(*   last    the latest call of an inserter: function, path, value, the    *)
(*           file and the disk condition it found, and the Result          *)
(*   prev    the call before that                                          *)
(*   calls   direct calls made (function-level specification)              *)
(*   script, pc, idx   the running script, its place and its loop index    *)
(*   out     the per-file reports the running script has printed           *)
(*   runs    script executions started                                     *)
(***************************************************************************)
NoCall ==
    [fn |-> "none", path |-> "", value |-> FALSE, before |-> NoFile,
     env |-> EnvOk, res |-> Result("None", NoFile, <<>>, 0, 0)]

Call(fn, path, value, before, e, res) ==
    [fn |-> fn, path |-> path, value |-> value, before |-> before,
     env |-> e, res |-> res]

\* the document the function-level specification works on
TestPath == archive_true_files[1]

Init ==
    /\ \E d \in Docs(MaxLines) :
          fs = [p \in Paths |-> IF p = TestPath THEN File(d) ELSE NoFile]
    /\ env \in Envs
    /\ last = NoCall
    /\ prev = NoCall
    /\ calls = 0
    /\ script = "none"
    /\ pc = "idle"
    /\ idx = 0
    /\ out = <<>>
    /\ runs = 0

\* one call fn(file_path, value) of an inserter: the file and the call record
Invoke(fn, path, value, res) ==
    /\ fs' = [fs EXCEPT ![path] = res.file]
    /\ prev' = last
    /\ last' = Call(fn, path, value, fs[path], env, res)

\* add_archive_field(TestPath, v) called directly
CallArchive ==
    /\ calls < MaxCalls
    /\ \E v \in BOOLEAN :
       \E res \in {add_archive_field(fs[TestPath], env, v)} :
          Invoke("archive", TestPath, v, res)
    /\ calls' = calls + 1
    /\ UNCHANGED <<env, script, pc, idx, out, runs>>

\* add_like_field(TestPath, v) called directly
CallLike ==
    /\ calls < MaxCalls
    /\ \E v \in BOOLEAN :
       \E res \in {add_like_field(fs[TestPath], env, v)} :
          Invoke("like", TestPath, v, res)
    /\ calls' = calls + 1
    /\ UNCHANGED <<env, script, pc, idx, out, runs>>

Next == CallArchive \/ CallLike

Spec == Init /\ [][Next]_vars

(***************************************************************************)
(* The drivers: main() of each script.  A step of a loop is one iteration: *)
(* the exists() test and, for an existing file, the whole inserter call.   *)
(***************************************************************************)
Report(path, outcome) == [path |-> path, outcome |-> outcome]

\* The driver specification starts from the documents without header lines:
\* they reach every report of the inserter, and the drivers add the loops,
\* not the editing of headers, which Spec explores.
DriverDocs == Docs(0)

\* the targets missing when a script starts: none, a target of the like
\* script only, a target of both scripts, or all of them
MissingSets == {{}, {like_true_files[1]}, {archive_true_files[1]}, Paths}

DriverInit ==
    /\ \E d \in DriverDocs :
       \E missing \in MissingSets :
          fs = [p \in Paths |-> IF p \in missing THEN NoFile ELSE File(d)]
    /\ env \in Envs
    /\ last = NoCall
    /\ prev = NoCall
    /\ calls = 0
    /\ script = "none"
    /\ pc = "idle"
    /\ idx = 0
    /\ out = <<>>
    /\ runs = 0

\* the loop body without the exists() test: the inserter is always called
IterationWithoutExists(fn, files, value) ==
    /\ idx <= Len(files)
    /\ \E path \in {files[idx]} :
       \E res \in {IF fn = "archive"
                   THEN add_archive_field(fs[path], env, value)
                   ELSE add_like_field(fs[path], env, value)} :
          /\ Invoke(fn, path, value, res)
          /\ out' = Append(out, Report(path, res.outcome))
    /\ idx' = idx + 1
    /\ UNCHANGED <<env, calls, script, pc, runs>>

\* the loop body leaving the loop at the first file that raises
IterationBreaking(fn, files, value) ==
    /\ idx <= Len(files)
    /\ \E path \in {files[idx]} :
          IF fs[path].exists
          THEN \E res \in {IF fn = "archive"
                           THEN add_archive_field(fs[path], env, value)
                           ELSE add_like_field(fs[path], env, value)} :
                  /\ Invoke(fn, path, value, res)
                  /\ out' = Append(out, Report(path, res.outcome))
                  /\ idx' = IF res.outcome = "Error"
                            THEN Len(files) + 1 ELSE idx + 1
          ELSE /\ out' = Append(out, Report(path, "NotFound"))
               /\ idx' = idx + 1
               /\ UNCHANGED <<fs, last, prev>>
    /\ UNCHANGED <<env, calls, script, pc, runs>>

\* the body of 'for file_rel in files': exists() and the call, or the
\* 'File not found' line
Iteration(fn, files, value) ==
    /\ idx <= Len(files)
    /\ \E path \in {files[idx]} :
          IF fs[path].exists
          THEN \E res \in {IF fn = "archive"
                           THEN add_archive_field(fs[path], env, value)
                           ELSE add_like_field(fs[path], env, value)} :
                  /\ Invoke(fn, path, value, res)
                  /\ out' = Append(out, Report(path, res.outcome))
          ELSE /\ out' = Append(out, Report(path, "NotFound"))
               /\ UNCHANGED <<fs, last, prev>>
    /\ idx' = idx + 1
    /\ UNCHANGED <<env, calls, script, pc, runs>>

\* add-archive-yaml.py is executed: main() up to its loop
StartArchive ==
    /\ pc = "idle"
    /\ runs < MaxRuns
    /\ script' = "archive"
    /\ pc' = "archive_true"
    /\ idx' = 1
    /\ out' = <<>>
    /\ runs' = runs + 1
    /\ UNCHANGED <<fs, env, last, prev, calls>>

ArchiveTrueStep ==
    /\ pc = "archive_true"
    /\ Iteration("archive", archive_true_files, TRUE)

\* the loop is over: 'Done!'
ArchiveDone ==
    /\ pc = "archive_true"
    /\ idx > Len(archive_true_files)
    /\ pc' = "done"
    /\ UNCHANGED <<fs, env, last, prev, calls, script, idx, out, runs>>

\* add-like-yaml.py is executed: main() up to its first loop
StartLike ==
    /\ pc = "idle"
    /\ runs < MaxRuns
    /\ script' = "like"
    /\ pc' = "like_true"
    /\ idx' = 1
    /\ out' = <<>>
    /\ runs' = runs + 1
    /\ UNCHANGED <<fs, env, last, prev, calls>>

LikeTrueStep ==
    /\ pc = "like_true"
    /\ Iteration("like", like_true_files, TRUE)

\* the first loop is over: 'Adding like: false', the second loop starts
LikeTrueEnd ==
    /\ pc = "like_true"
    /\ idx > Len(like_true_files)
    /\ pc' = "like_false"
    /\ idx' = 1
    /\ UNCHANGED <<fs, env, last, prev, calls, script, out, runs>>

LikeFalseStep ==
    /\ pc = "like_false"
    /\ Iteration("like", like_false_files, FALSE)

\* the second loop is over: 'Done!'
LikeDone ==
    /\ pc = "like_false"
    /\ idx > Len(like_false_files)
    /\ pc' = "done"
    /\ UNCHANGED <<fs, env, last, prev, calls, script, idx, out, runs>>

\* main() returns and the process ends
Exit ==
    /\ pc = "done"
    /\ pc' = "idle"
    /\ UNCHANGED <<fs, env, last, prev, calls, script, idx, out, runs>>

\* a transient failure passes: the disk works again
FaultClears ==
    /\ env # EnvOk
    /\ env' = EnvOk
    /\ UNCHANGED <<fs, last, prev, calls, script, pc, idx, out, runs>>

\* the steps of a running script
ScriptStep ==
    \/ ArchiveTrueStep
    \/ ArchiveDone
    \/ LikeTrueStep
    \/ LikeTrueEnd
    \/ LikeFalseStep
    \/ LikeDone
    \/ Exit

DriverNext == StartArchive \/ StartLike \/ ScriptStep \/ FaultClears

DriverSpec == DriverInit /\ [][DriverNext]_vars

\* a started script runs on: it is sequential and waits for nothing
FairDriverSpec == DriverSpec /\ WF_vars(ScriptStep)

(***************************************************************************)
(* Vocabulary of the properties.                                           *)
(***************************************************************************)
KeyOf(fn) == IF fn = "archive" THEN ArchiveKey ELSE LikeKey
AnchorOf(fn) == IF fn = "archive" THEN LikeKey ELSE ArchiveKey

\* the positions at which a line of s starts with p
LinesWith(s, p) == {i \in 1..Len(s) : (i = 1 \/ s[i - 1] = NL) /\ MatchAt(s, p, i)}

EndsWith(s, p) == Len(p) <= Len(s) /\ MatchAt(s, p, Len(s) - Len(p) + 1)

Called == last.fn # "none"
Outcome == last.res.outcome
Succeeded == Called /\ Outcome = "Success"

\* the bytes of the file before and after the latest call, the text read,
\* the header as the inserter cuts it, and the line it was asked to add
Before == last.before.data
After == fs[last.path].data
TextBefore == Decode(Before)
Header == Split(TextBefore)[2]
Remainder == Split(TextBefore)[3]
NewLine == FieldLine(KeyOf(last.fn), last.value)

\* the document the latest call read is well formed: '---' is its first
\* line and a later line
WellFormed ==
    /\ StartsWith(TextBefore, Sentinel \o <<NL>>)
    /\ \E i \in LinesWith(TextBefore, Sentinel \o <<NL>>) : i > 1

\* the latest two calls are the same call on the same file, one right after
\* the other
TwiceInARow ==
    /\ prev.fn # "none"
    /\ last.fn = prev.fn
    /\ last.path = prev.path
    /\ last.value = prev.value
    /\ last.before = prev.res.file

(***************************************************************************)
(* C1 - Idempotence: when an inserter that added its field (or found it    *)
(* present) is run again with the same value on the same document, the     *)
(* second run reports AlreadyPresent, writes nothing and leaves the        *)
(* content of the first run (failing reads aside).                         *)
(***************************************************************************)
C1_Idempotent ==
    (/\ TwiceInARow
     /\ prev.res.outcome \in {"Success", "AlreadyPresent"}
     /\ Outcome # "Error")
    => /\ Outcome = "AlreadyPresent"
       /\ last.res.writes = 0
       /\ fs[last.path] = prev.res.file

(***************************************************************************)
(* C2 - Header and body preservation: after an insertion the file is the   *)
(* file before it with exactly one line 'field: value' added at a line     *)
(* boundary; every other byte is as it was.                                *)
(***************************************************************************)
C2_Preserved ==
    (Succeeded /\ WellFormed) =>
        \E i \in 0..Len(Before) :
            /\ i = 0 \/ Before[i] = NL
            /\ After = Take(Before, i) \o NewLine \o Drop(Before, i)

(***************************************************************************)
(* C3 - At-most-once insertion: after an insertion the document holds the  *)
(* new 'field: value' line at most once, however many places of the header *)
(* match the anchor.                                                       *)
(***************************************************************************)
C3_AtMostOnce ==
    Succeeded => Cardinality(LinesWith(After, NewLine)) <= 1

(***************************************************************************)
(* C4 - Anchor placement: when the header of a well-formed document has a  *)
(* line starting with the anchor key (and none starting with the field),   *)
(* after the insertion the line 'field: value' directly follows an anchor  *)
(* line.                                                                   *)
(***************************************************************************)
C4_AfterAnchor ==
    (Succeeded /\ WellFormed /\ LinesWith(Header, AnchorOf(last.fn)) # {})
    => \E i \in LinesWith(After, AnchorOf(last.fn)) :
          LET j == Find(After, <<NL>>, i)
          IN  j # 0 /\ MatchAt(After, NewLine, j + 1)

(***************************************************************************)
(* C5 - Fallback placement: when no line of the header starts with the     *)
(* anchor key (the anchor text may occur inside a line), after the         *)
(* insertion the new line is the last line of the header, directly before  *)
(* the closing sentinel.                                                   *)
(***************************************************************************)
C5_LastHeaderLine ==
    (Succeeded /\ WellFormed /\ LinesWith(Header, AnchorOf(last.fn)) = {})
    => EndsWith(After, NewLine \o Sentinel \o Remainder)

(***************************************************************************)
(* C10 - Success implies the field is present: whenever the inserter       *)
(* reports Success, the file holds a line 'field: value' with the          *)
(* requested lowercase value.                                              *)
(***************************************************************************)
C10_SuccessHasField ==
    Succeeded => LinesWith(After, NewLine) # {}

(***************************************************************************)
(* C6 - No overwrite of an existing field, as the claim states it: when    *)
(* the text of the document has a line beginning with the field, the       *)
(* inserter reports AlreadyPresent, writes nothing and leaves the file     *)
(* (failing reads aside).                                                  *)
(***************************************************************************)
FieldPresent ==
    /\ Called
    /\ last.before.exists
    /\ LinesWith(TextBefore, KeyOf(last.fn)) # {}

C6_AlwaysAlreadyPresent ==
    (FieldPresent /\ Outcome # "Error")
    => /\ Outcome = "AlreadyPresent"
       /\ last.res.writes = 0
       /\ fs[last.path] = last.before

(***************************************************************************)
(* C6 as amended - when the text of the document has a line beginning with *)
(* the field, the inserter writes nothing and the file, so the existing    *)
(* value, stays as it is, whatever value was requested; the report is      *)
(* AlreadyPresent when the text begins with the sentinel and the read      *)
(* works, the missing-frontmatter report when it does not begin with the   *)
(* sentinel, and the error report when the read fails.                     *)
(***************************************************************************)
C6_NoOverwrite ==
    FieldPresent
    => /\ last.res.writes = 0
       /\ fs[last.path] = last.before
       /\ Outcome = IF last.env.kind = "read" THEN "Error"
                    ELSE IF StartsWith(TextBefore, Sentinel)
                         THEN "AlreadyPresent"
                         ELSE "NoFrontmatter"

\* a second call finds 'like: true' in the header and is asked for false
C6_Witness ==
    /\ FieldPresent
    /\ prev.fn # "none"
    /\ last.fn = "like"
    /\ last.value = FALSE
    /\ Outcome = "AlreadyPresent"
    /\ LinesWith(Header, FieldLine(LikeKey, TRUE)) # {}

(***************************************************************************)
(* Vocabulary of the driver properties: a step that is one iteration of a  *)
(* loop appends one report; the file it is about is the one in fs before   *)
(* the step.                                                               *)
(***************************************************************************)
IterationStep == Len(out') = Len(out) + 1
Reported == out'[Len(out')]
Target == fs[Reported.path]
TargetText == Decode(Target.data)
TargetKey == KeyOf(script)

\* the target cannot be edited: it is missing or its frontmatter is malformed
Ineligible ==
    \/ ~Target.exists
    \/ ~StartsWith(TargetText, Sentinel)
    \/ Len(Split(TargetText)) < 3

MalformedReports == {"NoFrontmatter", "InvalidFrontmatter"}

FailureStep == IterationStep /\ Reported.outcome = "Error"

C9_FailureLeavesFile == [][FailureStep => fs' = fs]_vars

(***************************************************************************)
(* C9 as amended - whenever a read or a write of a target raises, the      *)
(* failure is reported once and the loop moves on without a retry; the     *)
(* file is as before when the read fails or when write_text fails before   *)
(* it truncates the file, and it holds the part of the new text that       *)
(* reached the disk when the overwrite itself fails.  No other file        *)
(* changes.                                                                *)
(***************************************************************************)
C9_FailureEffect ==
    [][FailureStep
       => /\ idx' = idx + 1
          /\ Cardinality({i \in DOMAIN out' : out'[i].path = Reported.path}) = 1
          /\ last'.res.reads = 1
          /\ last'.res.writes <= 1
          /\ \A p \in Paths \ {Reported.path} : fs'[p] = fs[p]
          /\ fs'[Reported.path] =
                IF env.kind = "full"
                THEN File(Take(last'.res.text, env.room))
                ELSE Target]_vars

\* an overwrite failed on a full disk and the file lost its content
C9_Witness ==
    /\ out # <<>>
    /\ out[Len(out)].outcome = "Error"
    /\ last.path = out[Len(out)].path
    /\ last.env.kind = "full"
    /\ last.res.writes = 1
    /\ fs[last.path] # last.before
    /\ Len(fs[last.path].data) < Len(last.before.data)

(***************************************************************************)
(* C8 - Continue-on-error driver: the reports of a run follow the target   *)
(* lists in declaration order (for the like script the true list, then the *)
(* false list), one report per entry; a run that has started reaches its   *)
(* completion message, and has then processed every entry, whatever the    *)
(* outcomes were.                                                          *)
(***************************************************************************)
Targets ==
    IF script = "archive" THEN archive_true_files
    ELSE IF script = "like" THEN like_true_files \o like_false_files
    ELSE <<>>

Processed == [i \in DOMAIN out |-> out[i].path]

Running == pc \in {"archive_true", "like_true", "like_false"}

InDeclarationOrder ==
    /\ Len(out) <= Len(Targets)
    /\ Processed = Take(Targets, Len(out))
    /\ pc = "done" => Processed = Targets

C8_ContinueOnError == []InDeclarationOrder /\ (Running ~> pc = "done")

\* a like run is complete although its first file failed and a later one
\* was not found or was edited
C8_Witness ==
    /\ pc = "done"
    /\ script = "like"
    /\ Len(out) = Len(like_true_files) + Len(like_false_files)
    /\ out[1].outcome = "Error"
    /\ \E i \in DOMAIN out : out[i].outcome \in {"NotFound", "Success"}

====
